---- MODULE Spec2Model ----
(***************************************************************************)
(* Model of the Plex automaton layer: Plex/Transitions.py (TransitionMap)  *)
(* and Plex/Machines.py (Machine, Node, FastMachine).                       *)
(*                                                                         *)
(* Python objects are modelled with their identity: a state set (a dict    *)
(* used as a set) is a cell of a heap and the map holds references to      *)
(* cells, so that sharing one dict between two intervals is expressible.   *)
(* Indices into self.map are 0-based as in the source (see At).            *)
(***************************************************************************)
EXTENDS Integers, Sequences, FiniteSets, TLC

VARIABLES
  tm,       \* a TransitionMap
  callers,  \* the dicts passed to add_set so far, with the members they had
  node,     \* a Node
  calls,    \* the set_action calls made on node, in order
  machine,  \* a Machine and the Nodes it owns
  fm,       \* the FastMachine built from machine, once built
  nedits,   \* the number of transitions and actions given to machine's Nodes
  other,    \* a second Machine; -k refers to the Node at position k of its states
  registered, \* per name, the Node last passed to machine for registration
  last,     \* the last call made and what it returned
  nops      \* the number of calls made

vars == <<tm, callers, node, calls, machine, fm, nedits, other, registered, last, nops>>

tmVars == <<tm, callers>>

nodeVars == <<node, calls>>

machineVars == <<machine, fm, nedits, other, registered>>

\* ---------------------------------------------------------------- bounds

\* Stand-in for sys.maxint: character codes range over -maxint..maxint.
maxint == 3

\* Number of TransitionMap calls, or of set_action calls, in one behaviour.
MaxOps == 2

\* Number of Nodes a Machine is given.
MaxNodes == 2

\* Number of add_transition, link_to and set_action calls on a Machine's Nodes.
MaxEdits == 2

\* Stand-in for 256: chr accepts the codes 0..ChrLimit-1.
ChrLimit == 1

\* ------------------------------------------------------------- universes

Codes == (-maxint)..maxint

\* Character codes proper: maxint itself is only the closing sentinel.
CharCodes == (-maxint)..(maxint - 1)

\* Node identities used as targets of transitions.
States == {1, 2}

\* The keys of TransitionMap.special.
SpecialEvents == {"", "bol", "eol", "eof"}

\* An event is a tuple (code0, code1) or a special symbol.
Rng(c0, c1) == [isTuple |-> TRUE, code0 |-> c0, code1 |-> c1, name |-> ""]

Sp(n) == [isTuple |-> FALSE, code0 |-> 0, code1 |-> 0, name |-> n]

\* The one-character string chr(c), as a key of a FastMachine record.
Chr(c) == [isTuple |-> FALSE, code0 |-> c, code1 |-> 0, name |-> "chr"]

\* The codes passed to add, add_set and split: both sentinels and the codes
\* around 0.
InputCodes == {-maxint, -1, 0, 1, maxint}

\* Events offered to add / add_set: every pair of codes (also lo >= hi).
RangeEvents == {Rng(c0, c1) : c0 \in InputCodes, c1 \in InputCodes}

TMSpecialInputs == {Sp(""), Sp("bol")}

TMEvents == RangeEvents \cup TMSpecialInputs

\* Sets handed to add_set.
StateSets == {{}, States}

\* ------------------------------------------------------- TransitionMap

\* self.map[i], 0-based.
At(m, i) == m[i + 1]

\* TransitionMap.__init__ with no arguments: [-maxint, {}, maxint], {}.
\* special[e] = 0 stands for "key e not in self.special".
EmptyTM ==
  [map |-> <<-maxint, 1, maxint>>,
   special |-> [e \in SpecialEvents |-> 0],
   heap |-> <<{}>>]

\* dict(): a fresh empty cell.
dictNew(heap) == [heap |-> Append(heap, {}), ref |-> Len(heap) + 1]

\* A copy that shares the original dict instead of duplicating it.
dictCopyAliased(heap, ref) == [heap |-> heap, ref |-> ref]

\* A "copy" that forgets the members.
dictCopyEmpty(heap, ref) == dictNew(heap)

\* d.copy(): a fresh cell with the same members.
dictCopy(heap, ref) == [heap |-> Append(heap, heap[ref]), ref |-> Len(heap) + 1]

\* mid = ((lo + hi) / 2) & ~1
midpoint(lo, hi) == 2 * (((lo + hi) \div 2) \div 2)

\* The comparison of the search loop taken as <= instead of <.
codeBelowInclusive(code, bound) == code <= bound

\* code < self.map[mid]
codeBelow(code, bound) == code < bound

\* The while loop of split: narrows <<lo, hi>> until hi - lo < 4.
RECURSIVE bsearch(_, _, _, _)
bsearch(m, code, lo, hi) ==
  IF hi - lo >= 4
  THEN LET mid == midpoint(lo, hi) IN
       IF codeBelow(code, At(m, mid))
       THEN bsearch(m, code, lo, mid)
       ELSE bsearch(m, code, mid, hi)
  ELSE <<lo, hi>>

\* self.map[hi:hi] = [code, ref]
InsertAt(m, hi, code, ref) ==
  SubSeq(m, 1, hi) \o <<code, ref>> \o SubSeq(m, hi + 1, Len(m))

\* TransitionMap.split: returns the changed map and the index of code.
split(t, code) ==
  LET hi0 == Len(t.map) - 1 IN
  IF code = maxint
  THEN [tm |-> t, ret |-> hi0]
  ELSE LET b == bsearch(t.map, code, 0, hi0)
           lo == b[1]
           hi == b[2]
       IN IF At(t.map, lo) = code
          THEN [tm |-> t, ret |-> lo]
          ELSE LET c == dictCopy(t.heap, At(t.map, hi - 1)) IN
               [tm |-> [t EXCEPT !.map = InsertAt(@, hi, code, c.ref),
                                 !.heap = c.heap],
                ret |-> hi]

\* TransitionMap.get_special: the cell of event, created when missing.
get_special(t, name) ==
  IF t.special[name] = 0
  THEN LET c == dictNew(t.heap) IN
       [tm |-> [t EXCEPT !.special[name] = c.ref, !.heap = c.heap],
        ref |-> c.ref]
  ELSE [tm |-> t, ref |-> t.special[name]]

\* while i < j: map[i + 1][new_state] = 1; i = i + 2
RECURSIVE addLoop(_, _, _, _, _)
addLoop(m, heap, i, j, new_state) ==
  IF i < j
  THEN addLoop(m, [heap EXCEPT ![At(m, i + 1)] = @ \cup {new_state}],
               i + 2, j, new_state)
  ELSE heap

\* TransitionMap.add
add(t, event, new_state) ==
  IF event.isTuple
  THEN LET s0 == split(t, event.code0)
           s1 == split(s0.tm, event.code1)
       IN [s1.tm EXCEPT !.heap = addLoop(s1.tm.map, @, s0.ret, s1.ret, new_state)]
  ELSE LET g == get_special(t, event.name) IN
       [g.tm EXCEPT !.heap[g.ref] = @ \cup {new_state}]

\* while i < j: self.map[i + 1].update(new_set); i = i + 2
RECURSIVE addSetLoop(_, _, _, _, _)
addSetLoop(m, heap, i, j, new_set) ==
  IF i < j
  THEN addSetLoop(m, [heap EXCEPT ![At(m, i + 1)] = @ \cup heap[new_set]],
                  i + 2, j, new_set)
  ELSE heap

\* add_set that stores the caller's dict itself as a missing special bucket.
add_set_aliasing(t, event, new_set) ==
  IF event.isTuple
  THEN LET s0 == split(t, event.code0)
           s1 == split(s0.tm, event.code1)
       IN [s1.tm EXCEPT !.heap = addSetLoop(s1.tm.map, @, s0.ret, s1.ret, new_set)]
  ELSE IF t.special[event.name] = 0
       THEN [t EXCEPT !.special[event.name] = new_set]
       ELSE [t EXCEPT !.heap[t.special[event.name]] = @ \cup t.heap[new_set]]

\* TransitionMap.add_set; new_set is a reference to the caller's dict.
add_set(t, event, new_set) ==
  IF event.isTuple
  THEN LET s0 == split(t, event.code0)
           s1 == split(s0.tm, event.code1)
       IN [s1.tm EXCEPT !.heap = addSetLoop(s1.tm.map, @, s0.ret, s1.ret, new_set)]
  ELSE LET g == get_special(t, event.name) IN
       [g.tm EXCEPT !.heap[g.ref] = @ \cup g.tm.heap[new_set]]

\* TransitionMap.get_epsilon: self.special.get(''); 0 stands for None.
get_epsilon(t) == t.special[""]

\* The order in which the keys of self.special are visited (a dict's order:
\* any fixed order; the pairs produced do not depend on it).
SpecialOrder == <<"", "bol", "eol", "eof">>

\* The test of items with the else_set left out of it.
keepIntervalNonEmpty(set, else_set) == set # {}

\* if set or else_set
keepInterval(set, else_set) == set # {} \/ else_set # {}

\* The while loop of items over the intervals, from 0-based position i.
RECURSIVE rangeItems(_, _)
rangeItems(t, i) ==
  IF i < Len(t.map) - 1
  THEN LET ref == At(t.map, i + 1)
           pair == [ev |-> Rng(At(t.map, i), At(t.map, i + 2)), ref |-> ref,
                    set |-> t.heap[ref]]
       IN (IF keepInterval(t.heap[ref], t.heap[At(t.map, 1)])
           THEN <<pair>> ELSE <<>>) \o rangeItems(t, i + 2)
  ELSE <<>>

\* The for loop of items over self.special, from position k of SpecialOrder.
RECURSIVE specialItems(_, _)
specialItems(t, k) ==
  IF k <= Len(SpecialOrder)
  THEN LET e == SpecialOrder[k]
           ref == t.special[e]
       IN (IF ref # 0 /\ t.heap[ref] # {}
           THEN <<[ev |-> Sp(e), ref |-> ref, set |-> t.heap[ref]]>>
           ELSE <<>>) \o specialItems(t, k + 1)
  ELSE <<>>

\* TransitionMap.items: the list of (event, state_set) pairs.
items(t) == rangeItems(t, 0) \o specialItems(t, 1)

\* ------------------------------------------------- reading a map

\* Even 0-based positions below the last one: the starts of the intervals.
IntervalStarts(t) == {i \in 0..(Len(t.map) - 3) : i % 2 = 0}

\* The boundary codes, in the order stored.
Boundaries(t) == [k \in 1..((Len(t.map) + 1) \div 2) |-> At(t.map, 2 * (k - 1))]

\* The intervals [map[i], map[i + 2]) that hold code c.
IntervalsOf(t, c) == {i \in IntervalStarts(t) : At(t.map, i) <= c /\ c < At(t.map, i + 2)}

\* The members of the state set the map assigns to character code c.
Lookup(t, c) == UNION {t.heap[At(t.map, i + 1)] : i \in IntervalsOf(t, c)}

\* The members of the state set of a special event (none when the key is missing).
LookupSpecial(t, name) == IF t.special[name] = 0 THEN {} ELSE t.heap[t.special[name]]

\* The references held by the map and the special table.
BucketRefs(t) ==
  {At(t.map, i + 1) : i \in IntervalStarts(t)}
    \cup {t.special[e] : e \in {x \in SpecialEvents : t.special[x] # 0}}

\* ---------------------------------------------------------------- Node

\* LOWEST_PRIORITY = -sys.maxint
LOWEST_PRIORITY == -maxint

\* The value None of an action.
None == "None"

\* The actions passed to set_action (None included).
Actions == {None, "A", "B"}

\* The priorities passed to set_action.
Priorities == {LOWEST_PRIORITY, -1, 0, 1, maxint}

\* Node.__init__ over the class attributes: no action, the lowest priority,
\* number 0 and an empty TransitionMap.
NewNode ==
  [number |-> 0, transitions |-> EmptyTM, action |-> None,
   action_priority |-> LOWEST_PRIORITY]

\* priority > self.action_priority
priorityBeats(priority, current) == priority > current

\* Node.set_action
set_action(n, action, priority) ==
  IF priorityBeats(priority, n.action_priority)
  THEN [n EXCEPT !.action = action, !.action_priority = priority]
  ELSE n

\* Node.is_accepting
is_accepting(n) == n.action # None

\* ------------------------------------------------------------- Machine

\* The names of initial states (start conditions).
Names == {"", "x"}

\* Machine.__init__: no states, no initial states, numbers from 1.
\* initial_states[name] = 0 stands for "name not in self.initial_states".
\* A Node is referred to by its position in self.states.
NewMachine ==
  [states |-> <<>>, initial_states |-> [n \in Names |-> 0], next_state_number |-> 1]

\* new_state without the increment of next_state_number.
new_state_same_number(m) ==
  [m |-> [m EXCEPT !.states = Append(@, [NewNode EXCEPT !.number = m.next_state_number])],
   ret |-> Len(m.states) + 1]

\* Machine.new_state: returns the changed machine and the new Node.
new_state(m) ==
  [m |-> [m EXCEPT !.states = Append(@, [NewNode EXCEPT !.number = m.next_state_number]),
                   !.next_state_number = @ + 1],
   ret |-> Len(m.states) + 1]

\* make_initial_state that keeps the Node a name already has.
make_initial_state_keeping(m, name, state) ==
  IF m.initial_states[name] = 0 THEN [m EXCEPT !.initial_states[name] = state] ELSE m

\* Machine.make_initial_state
make_initial_state(m, name, state) == [m EXCEPT !.initial_states[name] = state]

\* Machine.new_initial_state
new_initial_state(m, name) ==
  LET r == new_state(m) IN
    [m |-> make_initial_state(r.m, name, r.ret), ret |-> r.ret]

\* Node.add_transition on the Node at position i of m.states.
add_transition(m, i, event, new_node) ==
  [m EXCEPT !.states[i].transitions = add(@, event, new_node)]

\* Node.link_to: an epsilon move.
link_to(m, i, state) == add_transition(m, i, Sp(""), state)

\* Machine.get_initial_state: self.initial_states[name] raises KeyError for
\* a name that is not a key.
get_initial_state(m, name) ==
  IF m.initial_states[name] = 0
  THEN [raised |-> TRUE, ret |-> 0]
  ELSE [raised |-> FALSE, ret |-> m.initial_states[name]]

\* --------------------------------------------------------- FastMachine

\* d.get(key): 0 (None) when d has no such key.
DictGet(d, key) == IF key \in DOMAIN d THEN d[key] ELSE 0

\* d[key] = value on a dict d.
DictSet(d, key, value) ==
  [k \in DOMAIN d \cup {key} |-> IF k = key THEN value ELSE d[k]]

\* FastMachine.new_state_template; 0 stands for None.
new_state_template ==
  [k \in {Sp(""), Sp("bol"), Sp("eol"), Sp("eof"), Sp("else")} |-> 0]

\* The cell that holds the class attribute FastMachine.new_state_template.
TemplateRef == 1

\* No FastMachine built yet. A state record (a dict) is a cell of cells and
\* is referred to by its position there; cell 1 is new_state_template.
NoFastMachine ==
  [built |-> FALSE, initial_states |-> [n \in Names |-> 0], states |-> <<>>,
   cells |-> <<new_state_template>>, next_number |-> 1, old_to_new |-> <<>>]

\* The first statements of FastMachine.__init__.
EmptyFastMachine == [NoFastMachine EXCEPT !.built = TRUE]

\* new_state without the .copy(): every record is the template itself.
fm_new_state_shared(f, action) ==
  [fm |-> [f EXCEPT
             !.next_number = f.next_number + 1,
             !.cells[TemplateRef] =
                DictSet(DictSet(@, Sp("number"), f.next_number), Sp("action"), action),
             !.states = Append(@, TemplateRef)],
   ret |-> TemplateRef]

\* FastMachine.new_state: returns the changed machine and the new record.
fm_new_state(f, action) ==
  LET result == Len(f.cells) + 1 IN
  [fm |-> [f EXCEPT
             !.next_number = f.next_number + 1,
             !.cells = Append(@, DictSet(DictSet(f.cells[TemplateRef],
                                                 Sp("number"), f.next_number),
                                         Sp("action"), action)),
             !.states = Append(@, result)],
   ret |-> result]

\* for old_state in old_machine.states: old_to_new[old_state] = self.new_state()
RECURSIVE fmCreateLoop(_, _, _)
fmCreateLoop(f, m, i) ==
  IF i <= Len(m.states)
  THEN LET r == fm_new_state(f, None) IN
       fmCreateLoop([r.fm EXCEPT !.old_to_new = Append(@, r.ret)], m, i + 1)
  ELSE f

\* The loop over initial_states left out.
fmInitialLoopSkipped(f, m) == f

\* for name, old_state in old_machine.initial_states.items():
\*     self.initial_states[name] = old_to_new[old_state]
fmInitialLoop(f, m) ==
  [f EXCEPT !.initial_states =
     [n \in Names |-> IF m.initial_states[n] = 0 THEN f.initial_states[n]
                      ELSE f.old_to_new[m.initial_states[n]]]]

\* The target taken by the old state's number, as an index counted from 0.
fmTargetsByNumber(set, old_to_new) ==
  IF set # {} THEN {old_to_new[x] + 1 : x \in set} ELSE {0}

\* What old_to_new[old_state_set.keys()[0]] can be: keys()[0] is whichever
\* member the dict happens to list first; None (0) for an empty set.
fmTargets(set, old_to_new) ==
  IF set # {} THEN {old_to_new[x] : x \in set} ELSE {0}

\* The records the loop over old_state.transitions.items() can leave, from
\* item k on: new_state[event] = target for each (event, old_state_set).
RECURSIVE fmFillRecord(_, _, _, _)
fmFillRecord(rec, its, k, old_to_new) ==
  IF k <= Len(its)
  THEN UNION {fmFillRecord(r, its, k + 1, old_to_new) :
                r \in {DictSet(rec, its[k].ev, v) :
                         v \in fmTargets(its[k].set, old_to_new)}}
  ELSE {rec}

\* The machines the last loop of __init__ can leave, from the state at
\* position i on: the transitions, then new_state['action'].
RECURSIVE fmFillStates(_, _, _)
fmFillStates(f, m, i) ==
  IF i <= Len(m.states)
  THEN LET old_state == m.states[i]
           new == f.old_to_new[i]
           recs == fmFillRecord(f.cells[new], items(old_state.transitions), 1,
                                f.old_to_new)
       IN UNION {fmFillStates(g, m, i + 1) :
                   g \in {[f EXCEPT !.cells[new] = DictSet(r, Sp("action"), old_state.action)] :
                            r \in recs}}
  ELSE {f}

\* FastMachine.__init__(old_machine): the machines it can build. No
\* statement of it raises for a machine whose targets are its own Nodes.
FastMachineOf(m) ==
  fmFillStates(fmInitialLoop(fmCreateLoop(EmptyFastMachine, m, 1), m), m, 1)

\* The dict of the record at position k of f.states.
Record(f, k) == f.cells[f.states[k]]

\* FastMachine.make_initial_state
fm_make_initial_state(f, name, state) == [f EXCEPT !.initial_states[name] = state]

\* chr(c) raises ValueError unless c is in range(256).
chrAccepts(c) == 0 <= c /\ c < ChrLimit

\* while code0 < code1: state[chr(code0)] = new_state; code0 = code0 + 1
\* on the dict rec; the loop ends where chr raises.
RECURSIVE chrLoop(_, _, _, _)
chrLoop(rec, code0, code1, target) ==
  IF code0 < code1
  THEN IF chrAccepts(code0)
       THEN chrLoop(DictSet(rec, Chr(code0), target), code0 + 1, code1, target)
       ELSE [rec |-> rec, raised |-> TRUE]
  ELSE [rec |-> rec, raised |-> FALSE]

\* FastMachine.add_transitions on the record in cell state: the changed
\* machine, and whether the call raised.
add_transitions(f, state, event, target) ==
  IF event.isTuple
  THEN IF event.code0 = -maxint
       THEN [fm |-> [f EXCEPT !.cells[state] = DictSet(@, Sp("else"), target)],
             raised |-> FALSE]
       ELSE IF event.code1 # maxint
       THEN LET r == chrLoop(f.cells[state], event.code0, event.code1, target) IN
              [fm |-> [f EXCEPT !.cells[state] = r.rec], raised |-> r.raised]
       ELSE [fm |-> f, raised |-> FALSE]
  ELSE [fm |-> [f EXCEPT !.cells[state] = DictSet(@, event, target)],
        raised |-> FALSE]

\* ---------------------------------------------------------- operations

NoEvent == Sp("")

\* What the last call was, what it was given and what it returned. No path
\* of add, add_set, split or items raises; the calls that can raise
\* (get_initial_state, add_transitions) set raised themselves.
Last(op, ev, st, set, code, ret) ==
  [op |-> op, ev |-> ev, st |-> st, set |-> set, code |-> code, ret |-> ret,
   res |-> <<>>, raised |-> FALSE]

\* Every object but the FastMachine, as constructed.
InitObjects ==
  /\ tm = EmptyTM
  /\ last = Last("init", NoEvent, 0, {}, 0, 0)
  /\ nops = 0
  /\ callers = {}
  /\ node = NewNode
  /\ calls = <<>>
  /\ machine = NewMachine
  /\ nedits = 0
  /\ other = NewMachine
  /\ registered = [n \in Names |-> 0]

Init == InitObjects /\ fm = NoFastMachine

\* t.add(event, new_state); no path of add raises.
Add(ev, s) ==
  /\ nops < MaxOps
  /\ tm' = add(tm, ev, s)
  /\ last' = Last("add", ev, s, {}, 0, 0)
  /\ nops' = nops + 1
  /\ UNCHANGED <<callers, nodeVars, machineVars>>

\* t.add_set(event, new_set): the caller's dict is a cell of its own.
AddSet(ev, S) ==
  /\ nops < MaxOps
  /\ LET arg == Len(tm.heap) + 1
         pre == [tm EXCEPT !.heap = Append(@, S)]
     IN /\ tm' = add_set(pre, ev, arg)
        /\ callers' = callers \cup {[ref |-> arg, val |-> S]}
  /\ last' = Last("add_set", ev, 0, S, 0, 0)
  /\ nops' = nops + 1
  /\ UNCHANGED <<nodeVars, machineVars>>

\* t.split(code)
Split(code) ==
  /\ nops < MaxOps
  /\ LET r == split(tm, code) IN
       /\ tm' = r.tm
       /\ last' = Last("split", NoEvent, 0, {}, code, r.ret)
  /\ nops' = nops + 1
  /\ UNCHANGED <<callers, nodeVars, machineVars>>

\* t.items(): reads the map, changes nothing.
Items ==
  /\ nops < MaxOps
  /\ last' = [Last("items", NoEvent, 0, {}, 0, 0) EXCEPT !.res = items(tm)]
  /\ nops' = nops + 1
  /\ UNCHANGED <<tmVars, nodeVars, machineVars>>

TMNext ==
  \/ \E ev \in TMEvents, s \in States : Add(ev, s)
  \/ \E ev \in TMEvents, S \in StateSets : AddSet(ev, S)
  \/ \E code \in InputCodes : Split(code)
  \/ Items

Spec == Init /\ [][TMNext]_vars

\* ------------------------------------------------------- Node behaviour

\* node.set_action(action, priority)
SetAction(action, priority) ==
  /\ nops < MaxOps
  /\ node' = set_action(node, action, priority)
  /\ calls' = Append(calls, [action |-> action, priority |-> priority])
  /\ last' = [Last("set_action", NoEvent, 0, {}, priority, 0) EXCEPT !.res = <<action>>]
  /\ nops' = nops + 1
  /\ UNCHANGED <<tmVars, machineVars>>

NodeNext ==
  \E action \in Actions, priority \in Priorities : SetAction(action, priority)

\* A Node on which set_action is called any number of times.
SpecNode == Init /\ [][NodeNext]_vars

\* The highest priority passed to set_action so far.
MaxPriority(cs) ==
  CHOOSE p \in {cs[k].priority : k \in DOMAIN cs} :
    \A k \in DOMAIN cs : cs[k].priority <= p

\* The first call made at the highest priority passed so far.
FirstAtMax(cs) ==
  CHOOSE k \in DOMAIN cs :
    /\ cs[k].priority = MaxPriority(cs)
    /\ \A j \in DOMAIN cs : cs[j].priority = MaxPriority(cs) => k <= j

\* C9: action_priority never decreases; a call whose priority is lower than
\* or equal to the current one leaves action and action_priority unchanged;
\* hence the recorded action is the one passed by the first call made at the
\* highest priority seen so far.
C9_FirstHighestWins ==
  [][/\ node'.action_priority >= node.action_priority
     /\ last'.code <= node.action_priority =>
          /\ node'.action = node.action
          /\ node'.action_priority = node.action_priority
     /\ calls' # <<>> => node'.action = calls'[FirstAtMax(calls')].action]_vars


\* C16: after any call set_action(action, priority) with an action other
\* than None and a priority from LOWEST_PRIORITY upward, is_accepting() is
\* true of the Node.
C16_SetActionAccepts ==
  (/\ last.op = "set_action"
   /\ last.res[1] # None
   /\ last.code >= LOWEST_PRIORITY) => is_accepting(node)

\* ---------------------------------------------------- Machine behaviour

\* The events given to add_transition.
MEvents == {Rng(0, 1), Rng(-maxint, 1), Sp("bol")}

\* The actions and the priorities given to set_action on a Machine's Nodes.
MActions == {"A", "B"}

MPriorities == {1}

\* The names given to new_initial_state before flattening.
MNames == {"x"}

NodeIds == 1..Len(machine.states)

\* machine.new_state()
NewState ==
  /\ ~fm.built
  /\ Len(machine.states) < MaxNodes
  /\ LET r == new_state(machine) IN
       /\ machine' = r.m
       /\ last' = Last("new_state", NoEvent, 0, {}, 0, r.ret)
  /\ UNCHANGED <<fm, nedits, other, registered, nops, tmVars, nodeVars>>

\* machine.new_initial_state(name)
NewInitialState(name) ==
  /\ ~fm.built
  /\ Len(machine.states) < MaxNodes
  /\ LET r == new_initial_state(machine, name) IN
       /\ machine' = r.m
       /\ last' = Last("new_initial_state", Sp(name), 0, {}, 0, r.ret)
       /\ registered' = [registered EXCEPT ![name] = r.ret]
  /\ UNCHANGED <<fm, nedits, other, nops, tmVars, nodeVars>>

\* machine.states[i].add_transition(event, machine.states[j])
AddTransition(i, ev, j) ==
  /\ ~fm.built
  /\ nedits < MaxEdits
  /\ machine' = add_transition(machine, i, ev, j)
  /\ last' = Last("add_transition", ev, j, {}, 0, i)
  /\ nedits' = nedits + 1
  /\ UNCHANGED <<fm, other, registered, nops, tmVars, nodeVars>>

\* machine.states[i].link_to(machine.states[j])
LinkTo(i, j) ==
  /\ ~fm.built
  /\ nedits < MaxEdits
  /\ machine' = link_to(machine, i, j)
  /\ last' = Last("link_to", Sp(""), j, {}, 0, i)
  /\ nedits' = nedits + 1
  /\ UNCHANGED <<fm, other, registered, nops, tmVars, nodeVars>>

\* machine.states[i].set_action(action, priority)
NodeSetAction(i, action, priority) ==
  /\ ~fm.built
  /\ nedits < MaxEdits
  /\ machine' = [machine EXCEPT !.states[i] = set_action(@, action, priority)]
  /\ last' = [Last("set_action", NoEvent, 0, {}, priority, i) EXCEPT !.res = <<action>>]
  /\ nedits' = nedits + 1
  /\ UNCHANGED <<fm, other, registered, nops, tmVars, nodeVars>>

\* FastMachine(machine), once, from the machine as built so far. The call
\* returns normally: __init__ has no check and no raise.
Flatten ==
  /\ ~fm.built
  /\ \E f \in FastMachineOf(machine) : fm' = f
  /\ last' = Last("FastMachine", NoEvent, 0, {}, 0, 0)
  /\ UNCHANGED <<machine, nedits, other, registered, nops, tmVars, nodeVars>>

MachineNext ==
  \/ NewState
  \/ \E name \in MNames : NewInitialState(name)
  \/ \E i \in NodeIds, j \in NodeIds, ev \in MEvents : AddTransition(i, ev, j)
  \/ \E i \in NodeIds, j \in NodeIds : LinkTo(i, j)
  \/ \E i \in NodeIds, action \in MActions, priority \in MPriorities :
       NodeSetAction(i, action, priority)
  \/ Flatten

\* A Machine built up state by state, then flattened into a FastMachine.
SpecMachine == Init /\ [][MachineNext]_vars

\* Some state of m has a transition with more than one target, or an epsilon
\* transition.
NonDeterministic(m) ==
  \E i \in 1..Len(m.states) :
    LET t == m.states[i].transitions IN
      \/ \E k \in IntervalStarts(t) : Cardinality(t.heap[At(t.map, k + 1)]) > 1
      \/ \E e \in SpecialEvents : Cardinality(LookupSpecial(t, e)) > 1
      \/ LookupSpecial(t, "") # {}

\* C10: FastMachine(old_machine) fails (raises, building nothing) whenever a
\* state of old_machine has a transition to more than one state or an
\* epsilon transition: it never picks one of several targets and never
\* copies an epsilon edge into the table.
C10_FlattenFailsFast ==
  (last.op = "FastMachine" /\ NonDeterministic(machine)) =>
     /\ last.raised
     /\ \A k \in DOMAIN fm.states : Record(fm, k)[Sp("")] = 0

\* The records of f: the cells its states list refers to.
RecordRefs(f) == {f.states[k] : k \in DOMAIN f.states}

\* The keys of a record that are not transition slots.
FieldKeys == {Sp("number"), Sp("action")}

\* C14: in a FastMachine built from a deterministic, epsilon-free Machine
\* whose targets are its own Nodes, every non-empty transition slot of every
\* record references a record of the states list, every initial_states
\* entry references such a record, and every record's epsilon slot is empty.
C14_SlotsInTable ==
  (fm.built /\ ~NonDeterministic(machine)) =>
    /\ \A k \in DOMAIN fm.states :
         /\ \A key \in DOMAIN Record(fm, k) \ FieldKeys :
              Record(fm, k)[key] # 0 => Record(fm, k)[key] \in RecordRefs(fm)
         /\ Record(fm, k)[Sp("")] = 0
    /\ \A n \in Names :
         fm.initial_states[n] # 0 => fm.initial_states[n] \in RecordRefs(fm)

\* A deterministic machine of two states with an initial state and a
\* transition to its second state has been flattened.
C14_Witness ==
  /\ fm.built
  /\ ~NonDeterministic(machine)
  /\ Len(fm.states) = 2
  /\ \E n \in Names : fm.initial_states[n] # 0
  /\ \E k \in DOMAIN fm.states :
       \E key \in DOMAIN Record(fm, k) \ FieldKeys : Record(fm, k)[key] = fm.states[2]

\* C17: FastMachine(old_machine) creates exactly one record per state, in
\* the order of old_machine.states, numbered 1..n; a state's record carries
\* the state's action; initial_states has exactly the names of
\* old_machine.initial_states, each mapped to the record of the Node named;
\* each non-empty bol, eol or eof transition is copied into the slot of that
\* name and references the record of a target (the target, when there is
\* one); and old_machine is not modified.
C17_Flatten ==
  [][last'.op = "FastMachine" =>
       /\ machine' = machine
       /\ Len(fm'.states) = Len(machine.states)
       /\ fm'.old_to_new = fm'.states
       /\ \A j, k \in DOMAIN fm'.states : j # k => fm'.states[j] # fm'.states[k]
       /\ \A k \in DOMAIN fm'.states :
            /\ Record(fm', k)[Sp("number")] = k
            /\ Record(fm', k)[Sp("action")] = machine.states[k].action
            /\ \A e \in {"bol", "eol", "eof"} :
                 LET set == LookupSpecial(machine.states[k].transitions, e) IN
                   set # {} => Record(fm', k)[Sp(e)] \in {fm'.states[T] : T \in set}
       /\ \A n \in Names :
            IF machine.initial_states[n] = 0
            THEN fm'.initial_states[n] = 0
            ELSE fm'.initial_states[n] = fm'.states[machine.initial_states[n]]]_vars

\* A machine with an initial state, an action and a bol transition to its
\* second state has been flattened.
C17_Witness ==
  /\ last.op = "FastMachine"
  /\ Len(machine.states) = 2
  /\ machine.initial_states["x"] = 1
  /\ \E k \in NodeIds : machine.states[k].action = "B"
  /\ LookupSpecial(machine.states[1].transitions, "bol") = {2}
  /\ Record(fm, 1)[Sp("bol")] = fm.states[2]

\* ------------------------------------------- Machine registry behaviour

\* The Nodes of the second Machine.
OtherIds == {-k : k \in 1..Len(other.states)}

\* Every Node there is: those of machine and those of other.
AllNodes == NodeIds \cup OtherIds

\* other.new_state()
OtherNewState ==
  /\ Len(other.states) < MaxNodes
  /\ LET r == new_state(other) IN
       /\ other' = r.m
       /\ last' = Last("other.new_state", NoEvent, 0, {}, 0, -r.ret)
  /\ UNCHANGED <<machine, fm, nedits, registered, nops, tmVars, nodeVars>>

\* machine.make_initial_state(name, state), with any Node there is.
MakeInitialState(name, state) ==
  /\ nedits < MaxEdits
  /\ machine' = make_initial_state(machine, name, state)
  /\ registered' = [registered EXCEPT ![name] = state]
  /\ last' = Last("make_initial_state", Sp(name), state, {}, 0, 0)
  /\ nedits' = nedits + 1
  /\ UNCHANGED <<fm, other, nops, tmVars, nodeVars>>

\* machine.get_initial_state(name): reads the machine, changes nothing.
GetInitialState(name) ==
  /\ LET r == get_initial_state(machine, name) IN
       last' = [Last("get_initial_state", Sp(name), 0, {}, 0, r.ret)
                  EXCEPT !.raised = r.raised]
  /\ UNCHANGED <<machineVars, nops, tmVars, nodeVars>>

RegistryNext ==
  \/ NewState
  \/ \E name \in Names : NewInitialState(name)
  \/ OtherNewState
  \/ \E name \in Names, state \in AllNodes : MakeInitialState(name, state)
  \/ \E i \in NodeIds, j \in AllNodes : LinkTo(i, j)
  \/ \E name \in Names : GetInitialState(name)

\* Two Machines; the first is given Nodes, initial states and epsilon moves.
SpecRegistry == Init /\ [][RegistryNext]_vars

\* The Nodes the transitions of Node h lead to.
TargetsOf(h) ==
  LET t == IF h > 0 THEN machine.states[h].transitions
           ELSE other.states[-h].transitions
  IN UNION {t.heap[r] : r \in BucketRefs(t)}

\* The Nodes reachable from the set S in at most n steps.
RECURSIVE ReachableFrom(_, _)
ReachableFrom(S, n) ==
  IF n = 0 THEN S
  ELSE ReachableFrom(S \cup UNION {TargetsOf(h) : h \in S}, n - 1)

\* C12: every Node registered in machine.initial_states, and every Node
\* reachable from one through transitions, is an element of machine.states;
\* and no Node is in the states list of both Machines.
C12_NodesOwned ==
  /\ \A h \in ReachableFrom({machine.initial_states[n] : n \in Names} \ {0},
                             Len(machine.states) + Len(other.states)) :
       h \in NodeIds
  /\ NodeIds \cap OtherIds = {}

\* C13: get_initial_state(name) returns the Node most recently registered
\* under name by new_initial_state or make_initial_state, whatever was
\* registered before or under other names; it fails with a lookup error
\* exactly when name was never registered; in both cases it changes nothing.
C13_GetInitialState ==
  [][last'.op = "get_initial_state" =>
       /\ machine' = machine
       /\ other' = other
       /\ IF registered[last'.ev.name] = 0
          THEN last'.raised
          ELSE ~last'.raised /\ last'.ret = registered[last'.ev.name]]_vars

\* "x" was registered twice by make_initial_state, last for the first Node,
\* and get_initial_state("x") has returned.
C13_Witness ==
  /\ last.op = "get_initial_state"
  /\ last.ev = Sp("x")
  /\ last.ret = 1
  /\ nedits = 2
  /\ machine.initial_states[""] = 0
  /\ Len(machine.states) = 2
  /\ \A k \in NodeIds : machine.states[k].transitions = EmptyTM

\* The numbers of m's Nodes are their positions in m.states, counted from 1,
\* and next_state_number is the number of Nodes plus one.
Numbered(m) ==
  /\ \A k \in DOMAIN m.states : m.states[k].number = k
  /\ \A j, k \in DOMAIN m.states : j # k => m.states[j].number # m.states[k].number
  /\ m.next_state_number = Len(m.states) + 1

\* No Node of m has left its place or changed its number in n.
NumbersKept(m, n) ==
  /\ Len(n.states) >= Len(m.states)
  /\ \A k \in DOMAIN m.states : n.states[k].number = m.states[k].number

\* C15: the states list holds the Nodes in creation order (new_state puts
\* the Node it returns last); the k-th Node has number k, so the numbers are
\* pairwise distinct; no Node's number ever changes; and next_state_number
\* is the number of states plus one.
C15_Numbering ==
  [][/\ Numbered(machine') /\ Numbered(other')
     /\ NumbersKept(machine, machine') /\ NumbersKept(other, other')
     /\ last'.op \in {"new_state", "new_initial_state"} =>
          last'.ret = Len(machine'.states) /\ Len(machine'.states) = Len(machine.states) + 1
     /\ last'.op = "other.new_state" =>
          -last'.ret = Len(other'.states) /\ Len(other'.states) = Len(other.states) + 1]_vars

\* Both Machines have been given all their Nodes, the last by new_initial_state.
C15_Witness ==
  /\ last.op = "new_initial_state"
  /\ Len(machine.states) = MaxNodes
  /\ Len(other.states) = MaxNodes

\* ------------------------------------------------ FastMachine behaviour

\* FastMachine(): a machine with no states.
FastInit == InitObjects /\ fm = EmptyFastMachine

\* The events given to add_transitions: a range from the domain minimum, a
\* range chr accepts, one that leaves chr's domain above and one below, a
\* range up to the domain maximum, and two symbolic events.
FEvents ==
  {Rng(-maxint, 1), Rng(0, ChrLimit), Rng(0, ChrLimit + 1), Rng(-1, 1),
   Rng(0, maxint), Sp("bol"), Sp("eof")}

\* The actions given to FastMachine.new_state.
FActions == {None, "A"}

\* fm.new_state(action)
FastNewState(action) ==
  /\ Len(fm.states) < MaxNodes
  /\ LET r == fm_new_state(fm, action) IN
       /\ fm' = r.fm
       /\ last' = [Last("fm.new_state", NoEvent, 0, {}, 0, r.ret) EXCEPT !.res = <<action>>]
  /\ UNCHANGED <<machine, nedits, other, registered, nops, tmVars, nodeVars>>

\* fm.make_initial_state(name, state)
FastMakeInitialState(name, state) ==
  /\ nedits < MaxEdits
  /\ fm' = fm_make_initial_state(fm, name, state)
  /\ last' = Last("fm.make_initial_state", Sp(name), state, {}, 0, 0)
  /\ nedits' = nedits + 1
  /\ UNCHANGED <<machine, other, registered, nops, tmVars, nodeVars>>

\* fm.add_transitions(state, event, target); a ValueError of chr leaves the
\* slots already written.
FastAddTransitions(state, event, target) ==
  /\ nedits < MaxEdits
  /\ LET r == add_transitions(fm, state, event, target) IN
       /\ fm' = r.fm
       /\ last' = [Last("add_transitions", event, target, {}, 0, state)
                     EXCEPT !.raised = r.raised]
  /\ nedits' = nedits + 1
  /\ UNCHANGED <<machine, other, registered, nops, tmVars, nodeVars>>

FastNext ==
  \/ \E action \in FActions : FastNewState(action)
  \/ \E name \in Names, state \in RecordRefs(fm) : FastMakeInitialState(name, state)
  \/ \E state \in RecordRefs(fm), event \in FEvents, target \in RecordRefs(fm) :
       FastAddTransitions(state, event, target)

\* A FastMachine built by hand, record by record.
SpecFast == FastInit /\ [][FastNext]_vars

\* The slots add_transitions(state, event, target) is to set.
SlotsOf(event) ==
  IF event.isTuple
  THEN IF event.code0 = -maxint THEN {Sp("else")}
       ELSE IF event.code1 < maxint
       THEN {Chr(c) : c \in event.code0..(event.code1 - 1)}
       ELSE {}
  ELSE {event}

\* Dict e is dict d with the keys of S set to v and nothing else changed.
SetExactly(d, e, S, v) ==
  /\ DOMAIN e = DOMAIN d \cup S
  /\ \A k \in DOMAIN e : e[k] = IF k \in S THEN v ELSE d[k]

\* Nothing of f but the dict of cell state differs in g; the records are
\* cells of their own, apart from each other and from the template.
FrameKept(f, g, state) ==
  /\ g.states = f.states
  /\ g.initial_states = f.initial_states
  /\ g.next_number = f.next_number
  /\ DOMAIN g.cells = DOMAIN f.cells
  /\ \A c \in DOMAIN f.cells \ {state} : g.cells[c] = f.cells[c]
  /\ g.cells[TemplateRef] = new_state_template
  /\ TemplateRef \notin RecordRefs(g)
  /\ \A j, k \in DOMAIN g.states : j # k => g.states[j] # g.states[k]

\* The range of event lies above the domain minimum and below the maximum.
InnerRange(event) ==
  event.isTuple /\ event.code0 > -maxint /\ event.code1 < maxint

ChrRange(event) == \A c \in event.code0..(event.code1 - 1) : chrAccepts(c)

C11_RangeSlotsFilled ==
  (last.op = "FastMachine" /\ ~NonDeterministic(machine)) =>
    \A i \in DOMAIN machine.states :
      LET t == machine.states[i].transitions IN
        \A k \in IntervalStarts(t) :
          LET lo == At(t.map, k)
              hi == At(t.map, k + 2)
          IN lo > -maxint =>
               \A T \in t.heap[At(t.map, k + 1)], c \in lo..(hi - 1) :
                 DictGet(Record(fm, i), Chr(c)) = fm.old_to_new[T]

\* ------------------------------------------------- TransitionMap claims

ValidRange(ev) == ev.isTuple /\ ev.code0 < ev.code1

\* C1: after any sequence of add / add_set (and split) calls the boundary
\* codes at the even positions of the map are strictly increasing, the first
\* is -maxint and the last is maxint.
C1_RangeInvariant ==
  LET b == Boundaries(tm) IN
    /\ Len(tm.map) % 2 = 1
    /\ Len(b) >= 2
    /\ b[1] = -maxint
    /\ b[Len(b)] = maxint
    /\ \A k \in 1..(Len(b) - 1) : b[k] < b[k + 1]

\* An add has just left three real boundaries between the sentinels.
C1_Witness ==
  /\ last.op = "add"
  /\ ValidRange(last.ev)
  /\ Len(Boundaries(tm)) >= 5

\* The effect of add(ev, s) leading from map t to map u, as claim C2 states it.
AddEffect(t, u, ev, s) ==
  IF ev.isTuple
  THEN ValidRange(ev) =>
         /\ \A c \in CharCodes :
              IF ev.code0 <= c /\ c < ev.code1
              THEN s \in Lookup(u, c)
              ELSE Lookup(u, c) = Lookup(t, c)
         /\ \A e \in SpecialEvents : LookupSpecial(u, e) = LookupSpecial(t, e)
  ELSE /\ LookupSpecial(u, ev.name) = LookupSpecial(t, ev.name) \cup {s}
       /\ \A e \in SpecialEvents \ {ev.name} : LookupSpecial(u, e) = LookupSpecial(t, e)
       /\ \A c \in CharCodes : Lookup(u, c) = Lookup(t, c)

\* C2: add(event, s) with a range [lo, hi), lo < hi, puts s into the target
\* set of every code of the range and leaves the target set of every other
\* code and of every special event as it was; with a special event it adds s
\* to that event's set and changes nothing else. The halves of a split
\* interval are independent sets.
C2_AddFrame == [][last'.op = "add" => AddEffect(tm, tm', last'.ev, last'.st)]_vars

\* A range add has split a nonempty interval and added its state to one half
\* only: a code inside the range and a code outside it now differ by that state.
C2_Witness ==
  /\ last.op = "add"
  /\ ValidRange(last.ev)
  /\ \E c \in CharCodes, d \in CharCodes :
       /\ last.ev.code0 <= c /\ c < last.ev.code1
       /\ ~(last.ev.code0 <= d /\ d < last.ev.code1)
       /\ Lookup(tm, d) # {}
       /\ last.st \notin Lookup(tm, d)
       /\ Lookup(tm, c) = Lookup(tm, d) \cup {last.st}

\* C3: the state set of the first interval equals the state set of the last
\* interval (states_0 == states_n-1) in every reachable map.
C3_OutsideSetsEqual ==
  tm.heap[At(tm.map, 1)] = tm.heap[At(tm.map, Len(tm.map) - 2)]

\* C4: split(code) returns an index i with map[i] = code; the target set of
\* every character code has the same members as before, and the special-event
\* table is unchanged.
C4_SplitFrame ==
  [][last'.op = "split" =>
       /\ last'.ret \in 0..(Len(tm'.map) - 1)
       /\ At(tm'.map, last'.ret) = last'.code
       /\ \A c \in CharCodes : Lookup(tm', c) = Lookup(tm, c)
       /\ tm'.special = tm.special
       /\ \A e \in SpecialEvents : LookupSpecial(tm', e) = LookupSpecial(tm, e)]_vars

\* A split has put a new boundary inside a nonempty interval: the two halves
\* are distinct dicts with the same members.
C4_Witness ==
  /\ last.op = "split"
  /\ last.ret >= 2
  /\ last.ret <= Len(tm.map) - 3
  /\ At(tm.map, last.ret - 1) # At(tm.map, last.ret + 1)
  /\ tm.heap[At(tm.map, last.ret - 1)] # {}
  /\ tm.heap[At(tm.map, last.ret - 1)] = tm.heap[At(tm.map, last.ret + 1)]

\* C5: a second split(c) with the same code returns the same index as the
\* first and leaves the map exactly as the first call left it.
C5_SplitIdempotent ==
  last.op = "split" => split(tm, last.code) = [tm |-> tm, ret |-> last.ret]

\* A split has returned an inner boundary of a map that the search loop has
\* to narrow (at least two real boundaries).
C5_Witness ==
  /\ last.op = "split"
  /\ Len(Boundaries(tm)) >= 4
  /\ last.ret >= 2
  /\ last.ret <= Len(tm.map) - 3

BadRangeCall(l) == l.op \in {"add", "add_set"} /\ l.ev.isTuple /\ l.ev.code0 >= l.ev.code1

\* C6: a range add or add_set invoked with lo >= hi fails with an error and
\* leaves the map (boundaries, interval sets, special table) unmodified.
C6_BadRangeFailsFast ==
  [][BadRangeCall(last') =>
       /\ last'.raised
       /\ Boundaries(tm') = Boundaries(tm)
       /\ tm'.special = tm.special]_vars

\* How many pairs of the list res carry the event ev.
CountEvent(res, ev) == Cardinality({k \in DOMAIN res : res[k].ev = ev})

\* Every pair of res is the bucket of an interval or of a special event of t.
PairsAreBuckets(t, res) ==
  \A k \in DOMAIN res :
    IF res[k].ev.isTuple
    THEN \E i \in IntervalStarts(t) :
           /\ res[k].ev = Rng(At(t.map, i), At(t.map, i + 2))
           /\ res[k].ref = At(t.map, i + 1)
           /\ res[k].set = t.heap[At(t.map, i + 1)]
    ELSE /\ res[k].ev.name \in SpecialEvents
         /\ res[k].ref = t.special[res[k].ev.name]
         /\ res[k].set = LookupSpecial(t, res[k].ev.name)

\* Each special event with a nonempty set is listed once, the others never.
SpecialPairs(t, res) ==
  \A e \in SpecialEvents :
    CountEvent(res, Sp(e)) = IF LookupSpecial(t, e) # {} THEN 1 ELSE 0

\* C7 as amended: items() lists each special event whose set is nonempty
\* once and no other special event; while the first interval's set (the
\* else set) is empty it lists exactly the intervals whose set is nonempty,
\* once each; when the else set is nonempty it lists every interval once,
\* the empty ones included.
C7_ItemsAmended ==
  last.op = "items" =>
    /\ PairsAreBuckets(tm, last.res)
    /\ SpecialPairs(tm, last.res)
    /\ \A i \in IntervalStarts(tm) :
         CountEvent(last.res, Rng(At(tm.map, i), At(tm.map, i + 2)))
           = IF tm.heap[At(tm.map, i + 1)] # {} \/ tm.heap[At(tm.map, 1)] # {}
             THEN 1 ELSE 0

\* items() has returned a pair whose state set is empty.
C7_Witness ==
  /\ last.op = "items"
  /\ \E k \in DOMAIN last.res : last.res[k].ev.isTuple /\ last.res[k].set = {}
  /\ \E k \in DOMAIN last.res : last.res[k].set # {}

\* C7 as stated: items() returns one pair per interval and special event
\* whose set is nonempty and no pair whose set is empty.
C7_ItemsOriginal ==
  last.op = "items" =>
    /\ PairsAreBuckets(tm, last.res)
    /\ SpecialPairs(tm, last.res)
    /\ \A k \in DOMAIN last.res : last.res[k].set # {}
    /\ \A i \in IntervalStarts(tm) :
         CountEvent(last.res, Rng(At(tm.map, i), At(tm.map, i + 2)))
           = IF tm.heap[At(tm.map, i + 1)] # {} THEN 1 ELSE 0

\* What a map holds, whichever cells hold it: the boundaries, the members of
\* each interval's set and the members of each special event's set.
View(t) ==
  [bounds |-> Boundaries(t),
   sets |-> [k \in 1..((Len(t.map) - 1) \div 2) |-> t.heap[At(t.map, 2 * k - 1)]],
   special |-> [e \in SpecialEvents |-> LookupSpecial(t, e)]]

\* The orders in which the members of S can be passed to add one at a time.
RECURSIVE Orders(_)
Orders(S) ==
  IF S = {} THEN {<<>>}
  ELSE UNION {{<<x>> \o o : o \in Orders(S \ {x})} : x \in S}

\* add(ev, o[k]), ..., add(ev, o[Len(o)]) applied to t in turn.
RECURSIVE addEach(_, _, _, _)
addEach(t, ev, o, k) ==
  IF k <= Len(o) THEN addEach(add(t, ev, o[k]), ev, o, k + 1) ELSE t

\* No bucket of the map is the dict of a caller of add_set, and each such
\* dict still has the members it was passed with.
CallersIntact(t, cs) ==
  \A c \in cs : t.heap[c.ref] = c.val /\ c.ref \notin BucketRefs(t)

\* C8 as amended: for a nonempty S, add_set(event, S) leaves the boundaries
\* and the members of every interval and special bucket as add(event, s) for
\* each s of S does, in any order; for an empty S it may still insert the
\* boundaries lo and hi (zero adds insert none) but the target set of every
\* code and special event keeps its members. The caller's S is neither
\* changed nor made a bucket of the map, by this call or a later one.
C8_AddSetAmended ==
  [][/\ last'.op = "add_set" =>
          IF last'.set # {}
          THEN LET after == View(tm') IN
               \A o \in Orders(last'.set) :
                 \A u \in {addEach(tm, last'.ev, o, 1)} : after = View(u)
          ELSE /\ \A c \in CharCodes : Lookup(tm', c) = Lookup(tm, c)
               /\ \A e \in SpecialEvents : LookupSpecial(tm', e) = LookupSpecial(tm, e)
     /\ CallersIntact(tm', callers')]_vars

\* add_set has united a two-member set into the intervals of a proper range.
C8_Witness ==
  /\ last.op = "add_set"
  /\ ValidRange(last.ev)
  /\ Cardinality(last.set) = 2
  /\ Len(Boundaries(tm)) >= 4
  /\ \E c \in CharCodes : Lookup(tm, c) = last.set

\* C8 as stated: for every S, add_set(event, S) leaves the same boundaries
\* and memberships as adding the members of S one at a time, and the
\* caller's S is neither changed nor aliased.
C8_AddSetOriginal ==
  [][/\ last'.op = "add_set" =>
          \A o \in Orders(last'.set) :
            \A u \in {addEach(tm, last'.ev, o, 1)} : View(tm') = View(u)
     /\ CallersIntact(tm', callers')]_vars


====
